---- MODULE Spec2Model ----
(***************************************************************************)
(* A model of nisarcryodb/nisarStation.py: one nisarStation object, its    *)
(* eight parallel sample arrays, the projection attributes, and the calls  *)
(* addData, subsetXYZ, computeVelocity, computeVelocityPtToPt and          *)
(* computeVelocityTimeSeries; and of nisarcryodb/nisarcryodb.py: one       *)
(* nisarcryodb object, its connection and cursor, and the calls of its     *)
(* methods through the decorator rollBackOnError.                          *)
(*                                                                         *)
(* Representation.                                                         *)
(*   - A datetime is the number of seconds since 2020-01-01 00:00:00.      *)
(*   - A decimal-year epoch is held in thousandths of a year (2020.5 is    *)
(*     2020500); the other numeric fields of a line are integers in the    *)
(*     unit of their column.                                               *)
(*   - A token of a line is a record: a numeric token carries its value,   *)
(*     a non-numeric token carries its text.                               *)
(*   - pyproj and scipy are libraries outside the repository.  A projected *)
(*     coordinate is the symbolic term <<axis, epsg, lat, lon>>; a slope   *)
(*     is "finite" or "NaN".                                               *)
(*   - numpy >= 1.24 is assumed for ragged input to np.transpose (it       *)
(*     raises ValueError); files stay below five lines, where older        *)
(*     releases raise as well.                                             *)
(***************************************************************************)
EXTENDS Integers, Sequences, FiniteSets, TLC

VARIABLES date, epoch, lat, lon, x, y, z, sigma3,
          epsg, lltoxy, proj, meanLat, projLengthScale,
          pc, ts, ret, db

fields == <<date, epoch, lat, lon, x, y, z, sigma3>>
projection == <<epsg, lltoxy, proj, meanLat, projLengthScale>>
vars == <<date, epoch, lat, lon, x, y, z, sigma3,
          epsg, lltoxy, proj, meanLat, projLengthScale, pc, ts, ret, db>>

(***************************************************************************)
(* Bounds of the model.                                                    *)
(***************************************************************************)
\* longest file built freely from the line pool
MaxLines == 2
\* most samples a station holds (addData is not called beyond it)
MaxSamples == 3
\* most turns of the time-series loop followed in one call
MaxWindows == 4

(***************************************************************************)
(* Values.                                                                 *)
(***************************************************************************)
\* Python's None (an attribute not yet set holds it too)
None == 0
\* the station code given to the constructor
stationID == "NIT3"
\* default of minPoints in computeVelocity and computeVelocityPtToPt
DefaultMinPoints == 10
\* default of minPoints in subsetXYZ
SubsetMinPoints == 1
\* default of averagingPeriod in computeVelocityPtToPt, in hours
DefaultAveragingPeriod == 12
\* what a call that returns None, or raises, hands back
NoValue == [none |-> TRUE]
NaN == "NaN"
Finite == "finite"

Num(v) == [num |-> TRUE, v |-> v, s |-> ""]
Str(s) == [num |-> FALSE, v |-> 0, s |-> s]

(***************************************************************************)
(* Calendar arithmetic of datetime, calendar.isleap and strptime.          *)
(***************************************************************************)
isleap(year) == (year % 4 = 0 /\ year % 100 # 0) \/ year % 400 = 0

DaysInYear(year) == 365 + (IF isleap(year) THEN 1 ELSE 0)

RECURSIVE YearStart(_)
\* datetime(year, 1, 1, 0, 0, 0) in seconds since 2020-01-01
YearStart(year) ==
    IF year <= 2020 THEN 0
    ELSE YearStart(year - 1) + DaysInYear(year - 1) * 86400

DaysInMonth(year, m) ==
    IF m = 2 THEN (IF isleap(year) THEN 29 ELSE 28)
    ELSE IF m \in {4, 6, 9, 11} THEN 30 ELSE 31

RECURSIVE DaysBeforeMonth(_, _)
DaysBeforeMonth(year, m) ==
    IF m <= 1 THEN 0
    ELSE DaysBeforeMonth(year, m - 1) + DaysInMonth(year, m - 1)

\* datetime.strptime(s, '%Y-%m-%d') for the string "y-m-d"
strptime(s) == YearStart(s.y) + (DaysBeforeMonth(s.y, s.m) + s.d - 1) * 86400

\* np.rint(n / d): nearest integer, ties to even (n >= 0, d > 0)
rint(n, d) ==
    LET q == n \div d
        r == n % d
    IN  IF 2 * r < d THEN q
        ELSE IF 2 * r > d THEN q + 1
        ELSE IF q % 2 = 0 THEN q ELSE q + 1

\* the datetime _readFile computes for a decimal year (in thousandths)
DateOfEpoch(ep) ==
    LET year == ep \div 1000
        sec  == rint((ep - year * 1000) * DaysInYear(year) * 864, 10)
    IN  YearStart(year) + sec

\* a date argument: a str "y-m-d" or a datetime
DateStr(yy, mm, dd) == [isStr |-> TRUE, y |-> yy, m |-> mm, d |-> dd, t |-> 0]
DateTime(tt) == [isStr |-> FALSE, y |-> 0, m |-> 0, d |-> 0, t |-> tt]

_formatDate(d) == IF d.isStr THEN strptime(d) ELSE d.t

timedeltaHours(h) == h * 3600

(***************************************************************************)
(* _readFile.                                                              *)
(***************************************************************************)
Values(tokens) == [i \in 1..Len(tokens) |-> tokens[i].v]

\* [float(x) for x in pieces[0:-1]]: ValueError at a non-numeric token
LineData(pieces) ==
    LET lead == SubSeq(pieces, 1, Len(pieces) - 1)
    IN  IF \E i \in 1..Len(lead) : ~lead[i].num
        THEN [exc |-> "ValueError", data |-> <<>>]
        ELSE [exc |-> "", data |-> Values(lead)]

\* the test of line 111; the branch it guards only prints
SkipMessage(pieces) ==
    Len(pieces) # 6 \/ stationID # pieces[Len(pieces)].s

RECURSIVE ReadLines(_, _)
\* the loop over the lines of the file; acc holds newData, date and the
\* exception that ended the loop, if any
ReadLines(lines, acc) ==
    IF lines = <<>> \/ acc.exc # "" THEN acc
    ELSE LET pieces == Head(lines)
             ld == LineData(pieces)
             \* the message of line 112 comes before line 115
             told == [acc EXCEPT !.printed = @ + (IF SkipMessage(pieces)
                                                  THEN 1 ELSE 0)]
         IN  IF ld.exc # ""
             THEN [told EXCEPT !.exc = ld.exc]
             ELSE IF ld.data = <<>>
             THEN [told EXCEPT !.exc = "IndexError"]
             ELSE ReadLines(Tail(lines),
                            [told EXCEPT
                               !.date = Append(@, DateOfEpoch(ld.data[1])),
                               !.newData = Append(@, ld.data)])

Column(rows, c) == [i \in 1..Len(rows) |-> rows[i][c]]

\* _readFile(filePath); filePath names file.lines, or nothing
_readFile(file) ==
    LET none == [exc |-> "", date |-> <<>>, epoch |-> <<>>, lat |-> <<>>,
                 lon |-> <<>>, z |-> <<>>, sigma |-> <<>>]
    IN  IF ~file.exists
        THEN [none EXCEPT !.exc = "FileNotFoundError"]
        ELSE
        LET r == ReadLines(file.lines, [exc |-> "", newData |-> <<>>,
                                  date |-> <<>>, printed |-> 0])
        IN  IF r.exc # "" THEN [none EXCEPT !.exc = r.exc]
            \* epoch, lat, lon, z, sigma = np.transpose(newData)
            ELSE IF r.newData = <<>>
                    \/ \E i \in 1..Len(r.newData) : Len(r.newData[i]) # 5
            THEN [none EXCEPT !.exc = "ValueError"]
            ELSE [exc |-> "", date |-> r.date,
                  epoch |-> Column(r.newData, 1), lat |-> Column(r.newData, 2),
                  lon |-> Column(r.newData, 3), z |-> Column(r.newData, 4),
                  sigma |-> Column(r.newData, 5)]

(***************************************************************************)
(* _determineEPSG.                                                         *)
(***************************************************************************)
\* bool(self.lat > 55) on the array self.lat: the outcomes a numpy build
\* can produce ("raise": ValueError)
LatArrayAbove55 ==
    IF Len(lat) = 0 THEN {"False", "raise"}
    ELSE IF Len(lat) = 1 THEN {IF lat[1] > 55 THEN "True" ELSE "False"}
    ELSE {"raise"}

\* the selection made again on every call, whatever epsg holds
SelectEPSGEachCall(lat0) ==
    LET code == IF lat0 < -55 THEN 3031 ELSE 3413
    IN  {[exc |-> "", epsg |-> code, proj |-> code, lltoxy |-> code]}

\* the outcomes of _determineEPSG(lat0): the exception raised, or the
\* values of epsg, proj (and crs) and lltoxy it leaves
_determineEPSG(lat0) ==
    LET fail(e) == [exc |-> e, epsg |-> epsg, proj |-> proj,
                    lltoxy |-> lltoxy]
        done(code) == [exc |-> "", epsg |-> code, proj |-> code,
                       lltoxy |-> IF lltoxy = None THEN code ELSE lltoxy]
        \* pyproj.CRS.from_epsg("None") raises CRSError
        built(code) == IF code = None THEN fail("CRSError") ELSE done(code)
    IN  IF epsg # None THEN {done(epsg)}
        ELSE IF lat0 < -55 THEN {done(3031)}
        ELSE { IF b = "raise" THEN fail("ValueError")
               ELSE IF b = "True" THEN built(3413)
               ELSE built(None) : b \in LatArrayAbove55 }

(***************************************************************************)
(* addData.                                                                *)
(***************************************************************************)
\* self.lltoxy(lat, lon): the planar coordinates, as terms
TransformX(code, la, lo) ==
    [i \in 1..Len(la) |-> <<"x", code, la[i], lo[i]>>]
TransformY(code, la, lo) ==
    [i \in 1..Len(la) |-> <<"y", code, la[i], lo[i]>>]

RECURSIVE Sum(_)
Sum(s) == IF s = <<>> THEN 0 ELSE Head(s) + Sum(Tail(s))

RECURSIVE GCD(_, _)
GCD(a, b) == IF b = 0 THEN a ELSE GCD(b, a % b)

Abs(n) == IF n < 0 THEN -n ELSE n

\* np.mean of a non-empty array, as a reduced fraction
Mean(s) ==
    LET g == GCD(Abs(Sum(s)), Len(s))
    IN  [num |-> Sum(s) \div g, den |-> Len(s) \div g]

Unset == [num |-> 0, den |-> 0]

\* self.proj.get_factors(0, meanLat).parallel_scale, as a term
ParallelScale(code, m) == [proj |-> code, lat |-> m]
\* the constructor does not make the attribute projLengthScale: the value
\* the variable holds until the first addData that returns
NoProjLengthScale == ParallelScale(None, Unset)

Min(S) == CHOOSE m \in S : \A n \in S : m <= n

RECURSIVE SortOrdersOf(_, _)
\* the index orders that list the elements of s at `left` in
\* non-decreasing order
SortOrdersOf(s, left) ==
    IF left = {} THEN {<<>>}
    ELSE LET m == Min({s[i] : i \in left})
         IN  UNION { { <<i>> \o t : t \in SortOrdersOf(s, left \ {i}) } :
                     i \in {j \in left : s[j] = m} }

\* the order left as it is
NoSort(s) == {[i \in 1..Len(s) |-> i]}
\* np.argsort(s): equal keys come in an order the build decides
argsort(s) == SortOrdersOf(s, 1..Len(s))

\* a[order]
Take(a, order) == [i \in 1..Len(order) |-> a[order[i]]]

Outcome(op, arg, kind, exc, val) ==
    [op |-> op, arg |-> arg, kind |-> kind, exc |-> exc, val |-> val]

\* the batch put in place of the array held
Overwrite(data, held) == data
\* np.append(data, getattr(self, var)): the batch, then the array held
npAppend(data, held) == data \o held

\* the mean over the whole array self.lat
MeanOfBuffer(batchLat, selfLat) == Mean(selfLat)
\* np.mean(lat) at line 162: lat is the batch; self.lat is not read
MeanOfBatch(batchLat, selfLat) == Mean(batchLat)

\* the dates of the lines read before the call failed stay in self.date
AddDataRaisesKeepingLines(file, e) ==
    LET read == IF file.exists
                THEN ReadLines(file.lines, [exc |-> "", newData |-> <<>>,
                                            date |-> <<>>, printed |-> 0]).date
                ELSE <<>>
    IN  /\ ret' = Outcome("addData", [file |-> file], "raise", e, NoValue)
        /\ date' = read \o date
        /\ UNCHANGED <<epoch, lat, lon, x, y, z, sigma3, projection, pc, ts,
                       db>>

\* an exception of line 143 or 145 leaves addData: lines 147-165 are not run
AddDataRaises(file, e) ==
    /\ ret' = Outcome("addData", [file |-> file], "raise", e, NoValue)
    /\ UNCHANGED <<fields, projection, pc, ts, db>>

AddData(file) ==
    LET r == _readFile(file)
        raised(e) == AddDataRaises(file, e)
    IN  /\ pc = "idle"
        /\ Len(r.epoch) + Len(epoch) <= MaxSamples
        /\ IF r.exc # "" THEN raised(r.exc)
           ELSE \E e \in _determineEPSG(r.lat[1]) :
                IF e.exc # "" THEN raised(e.exc)
                ELSE \E sortOrder \in argsort(npAppend(r.epoch, epoch)) :
                     /\ epsg' = e.epsg
                     /\ proj' = e.proj
                     /\ lltoxy' = e.lltoxy
                     /\ date' = Take(npAppend(r.date, date), sortOrder)
                     /\ epoch' = Take(npAppend(r.epoch, epoch), sortOrder)
                     /\ lat' = Take(npAppend(r.lat, lat), sortOrder)
                     /\ lon' = Take(npAppend(r.lon, lon), sortOrder)
                     /\ x' = Take(npAppend(TransformX(e.lltoxy, r.lat, r.lon),
                                           x), sortOrder)
                     /\ y' = Take(npAppend(TransformY(e.lltoxy, r.lat, r.lon),
                                           y), sortOrder)
                     /\ z' = Take(npAppend(r.z, z), sortOrder)
                     /\ sigma3' = Take(npAppend(r.sigma, sigma3), sortOrder)
                     /\ meanLat' = MeanOfBatch(r.lat, lat')
                     /\ projLengthScale' = ParallelScale(e.proj, meanLat')
                     /\ ret' = Outcome("addData", [file |-> file], "return",
                                       "", NoValue)
                     /\ UNCHANGED <<pc, ts, db>>

(***************************************************************************)
(* subsetXYZ.                                                              *)
(***************************************************************************)
\* the mask with both ends left out
InRangeExclusive(d1, d2) ==
    {i \in 1..Len(date) : date[i] > d1 /\ date[i] < d2}
\* np.logical_and(self.date >= date1, self.date <= date2), as the set of
\* the indices where the mask is True
inRange(d1, d2) ==
    {i \in 1..Len(date) : date[i] >= d1 /\ date[i] <= d2}

RECURSIVE MaskedFrom(_, _, _)
MaskedFrom(a, mask, i) ==
    IF i > Len(a) THEN <<>>
    ELSE (IF i \in mask THEN <<a[i]>> ELSE <<>>) \o MaskedFrom(a, mask, i + 1)

\* a[mask]
Masked(a, mask) == MaskedFrom(a, mask, 1)

\* the tuple subsetXYZ returns: `len` values, three NaN (the sentinel) or
\* the five arrays
subsetXYZ(date1, date2, minPoints) ==
    LET mask == inRange(_formatDate(date1), _formatDate(date2))
    IN  IF Cardinality(mask) < minPoints
        THEN [len |-> 3, date |-> <<>>, x |-> <<>>, y |-> <<>>, z |-> <<>>,
              epoch |-> <<>>]
        ELSE [len |-> 5, date |-> Masked(date, mask), x |-> Masked(x, mask),
              y |-> Masked(y, mask), z |-> Masked(z, mask),
              epoch |-> Masked(epoch, mask)]

(***************************************************************************)
(* The estimators.                                                         *)
(***************************************************************************)
Raised(e) == [kind |-> "raise", exc |-> e, vx |-> "", vy |-> ""]
Returned(vx, vy) == [kind |-> "return", exc |-> "", vx |-> vx, vy |-> vy]

\* slope of scipy.stats.linregress(ep, .): "raise" for ValueError
linregress(ep) ==
    IF Len(ep) = 0 THEN "raise"
    ELSE IF Len(ep) > 1 /\ \A i \in 1..Len(ep) : ep[i] = ep[1] THEN "raise"
    ELSE IF Len(ep) = 1 THEN NaN
    ELSE Finite

computeVelocity(date1, date2, minPoints) ==
    \* minPoints is not handed to subsetXYZ, whose own default applies
    LET s == subsetXYZ(date1, date2, SubsetMinPoints)
    IN  \* date, x, y, z, epoch = <a tuple of s.len values>
        IF s.len # 5 THEN Raised("ValueError")
        ELSE LET slope == linregress(s.epoch)
             IN  IF slope = "raise" THEN Raised("ValueError")
                 \* line 196 reads self.projLengthScale
                 ELSE IF projLengthScale = NoProjLengthScale
                 THEN Raised("AttributeError")
                 ELSE Returned(slope, slope)

\* (a2 - a1) / dT on numpy floats, for the means over two subsets; equal
\* mean epochs come from equal subsets only, so dT = 0 is 0/0
MeanDifferenceRate(ep1, ep2) ==
    IF Sum(ep1) * Len(ep2) = Sum(ep2) * Len(ep1) THEN NaN ELSE Finite

computeVelocityPtToPt(date1, date2, minPoints, averagingPeriod) ==
    LET d1 == _formatDate(date1)
        d2 == _formatDate(date2)
        tAvg == timedeltaHours(averagingPeriod)
        s1 == subsetXYZ(DateTime(d1 - tAvg), DateTime(d1 + tAvg), minPoints)
        s2 == subsetXYZ(DateTime(d2 - tAvg), DateTime(d2 + tAvg), minPoints)
    IN  IF s1.len # 5 \/ s2.len # 5 THEN Raised("ValueError")
        \* line 244 reads self.projLengthScale
        ELSE IF projLengthScale = NoProjLengthScale
        THEN Raised("AttributeError")
        ELSE LET v == MeanDifferenceRate(s1.epoch, s2.epoch)
             IN  Returned(v, v)

SubsetXYZCall(date1, date2, minPoints) ==
    /\ pc = "idle"
    /\ ret' = [op |-> "subsetXYZ",
               arg |-> [date1 |-> date1, date2 |-> date2,
                        minPoints |-> minPoints],
               kind |-> "return", exc |-> "",
               val |-> subsetXYZ(date1, date2, minPoints)]
    /\ UNCHANGED <<fields, projection, pc, ts, db>>

ComputeVelocityCall(date1, date2, minPoints) ==
    /\ pc = "idle"
    /\ LET r == computeVelocity(date1, date2, minPoints)
       IN  ret' = [op |-> "computeVelocity",
                   arg |-> [date1 |-> date1, date2 |-> date2,
                            minPoints |-> minPoints],
                   kind |-> r.kind, exc |-> r.exc,
                   val |-> [vx |-> r.vx, vy |-> r.vy]]
    /\ UNCHANGED <<fields, projection, pc, ts, db>>

ComputeVelocityPtToPtCall(date1, date2, minPoints, averagingPeriod) ==
    /\ pc = "idle"
    /\ LET r == computeVelocityPtToPt(date1, date2, minPoints,
                                      averagingPeriod)
       IN  ret' = [op |-> "computeVelocityPtToPt",
                   arg |-> [date1 |-> date1, date2 |-> date2,
                            minPoints |-> minPoints,
                            averagingPeriod |-> averagingPeriod],
                   kind |-> r.kind, exc |-> r.exc,
                   val |-> [vx |-> r.vx, vy |-> r.vy]]
    /\ UNCHANGED <<fields, projection, pc, ts, db>>

(***************************************************************************)
(* computeVelocityTimeSeries: the call up to the loop, one turn of the     *)
(* loop, and the return.  dT is a multiple of 24, so dT/24 is whole.       *)
(***************************************************************************)
Methods == {"point", "regression"}

\* lines 324-336: the statements before the loop
TimeSeriesCall(date1, date2, dT, sampleInterval, method, averagingPeriod) ==
    /\ pc = "idle"
    /\ pc' = "loop"
    /\ ts' = [arg |-> [date1 |-> date1, date2 |-> date2, dT |-> dT,
                       sampleInterval |-> sampleInterval, method |-> method,
                       averagingPeriod |-> averagingPeriod],
              printError |-> method \notin Methods,
              averagingPeriod |->
                  IF method = "point" /\ averagingPeriod = None
                  THEN dT \div 24 ELSE averagingPeriod,
              date2 |-> _formatDate(date2),
              currentDate |-> _formatDate(date1),
              vxSeries |-> <<>>, vySeries |-> <<>>, dateSeries |-> <<>>,
              windows |-> 0, estimates |-> 0]
    /\ ret' = Outcome("computeVelocityTimeSeries",
                      [date1 |-> date1, date2 |-> date2, dT |-> dT,
                       sampleInterval |-> sampleInterval, method |-> method,
                       averagingPeriod |-> averagingPeriod],
                      "running", "", NoValue)
    /\ UNCHANGED <<fields, projection, db>>

\* the test of the while statement
LoopTest == ts.currentDate + timedeltaHours(ts.arg.dT) < ts.date2

\* what the call leaves when it ends: its locals, the number of windows
\* the loop entered and the number of estimator calls made
Locals(t) == [dateSeries |-> t.dateSeries, vxSeries |-> t.vxSeries,
              vySeries |-> t.vySeries, windows |-> t.windows,
              estimates |-> t.estimates, printError |-> t.printError]

\* lines 340-354: one turn of the loop
TimeSeriesStep ==
    /\ pc = "loop"
    /\ LoopTest
    /\ ts.windows < MaxWindows
    /\ LET first == DateTime(ts.currentDate)
           second == DateTime(ts.currentDate + timedeltaHours(ts.arg.dT))
           known == ts.arg.method \in Methods
           r == IF ts.arg.method = "regression"
                THEN computeVelocity(first, second, DefaultMinPoints)
                ELSE IF ts.arg.method = "point"
                THEN computeVelocityPtToPt(first, second, DefaultMinPoints,
                                           ts.averagingPeriod)
                \* vx and vy are not bound when line 352 reads them
                ELSE Raised("UnboundLocalError")
           entered == [ts EXCEPT !.windows = @ + 1,
                                 !.estimates = @ + (IF known THEN 1 ELSE 0)]
           mid == ts.currentDate + ts.arg.dT * 1800
       IN  IF r.kind = "raise"
           THEN /\ ret' = Outcome("computeVelocityTimeSeries", ts.arg,
                                  "raise", r.exc,
                                  Locals(IF known THEN entered
                                         ELSE [entered EXCEPT
                                                 !.dateSeries =
                                                     Append(@, mid)]))
                /\ pc' = "idle"
                /\ ts' = NoValue
           ELSE /\ ts' = [entered EXCEPT
                            !.dateSeries = Append(@, mid),
                            !.vxSeries = Append(@, r.vx),
                            !.vySeries = Append(@, r.vy),
                            !.currentDate =
                                @ + timedeltaHours(ts.arg.sampleInterval)]
                /\ UNCHANGED <<pc, ret>>
    /\ UNCHANGED <<fields, projection, db>>

\* line 355
TimeSeriesReturn ==
    /\ pc = "loop"
    /\ ~LoopTest
    /\ ret' = Outcome("computeVelocityTimeSeries", ts.arg, "return", "",
                      Locals(ts))
    /\ pc' = "idle"
    /\ ts' = NoValue
    /\ UNCHANGED <<fields, projection, db>>

(***************************************************************************)
(* Inputs.                                                                 *)
(***************************************************************************)
Line(ep, la, lo, zz, sg, code) ==
    <<Num(ep), Num(la), Num(lo), Num(zz), Num(sg), Str(code)>>

\* "2020.0 -75 0 100 1 NIT3" and further lines of the station
LineA == Line(2020000, -75, 0, 100, 1, stationID)
LineB == Line(2020500, -75, 0, 101, 1, stationID)
LineC == Line(2021000, -76, 0, 102, 2, stationID)
\* a northern position at the epoch of LineB
LineN == Line(2020500, 70, 0, 50, 1, stationID)
\* a mid-latitude position
LineE == Line(2020250, 10, 0, 60, 1, stationID)
\* six fields, another station's code
LineX == Line(2020250, -75, 0, 103, 1, "XXXX")
\* five fields
LineShort == <<Num(2020750), Num(-75), Num(0), Num(100), Str(stationID)>>
\* seven fields
LineLong == Line(2020000, -75, 0, 100, 1, stationID) \o <<Str("extra")>>
\* a blank line
LineBlank == <<>>

\* a valid line, a line of another station and a malformed line
LinePool == {LineA, LineX, LineShort}

SeqsUpTo(S, n) == UNION {[1..k -> S] : k \in 0..n}

File(lines) == [exists |-> TRUE, lines |-> lines]
MissingFile == [exists |-> FALSE, lines |-> <<>>]

Files ==
    { File(l) : l \in SeqsUpTo(LinePool, MaxLines)
                      \cup { <<LineA, LineB, LineC>>,
                             <<LineA, LineB, LineC, LineShort>>,
                             <<LineB>>, <<LineN>>, <<LineE>>,
                             <<LineBlank>>, <<LineLong>>,
                             <<LineA, LineLong>> } }
    \cup {MissingFile}

(***************************************************************************)
(* nisarcryodb.py: one nisarcryodb object.  psycopg2 is a library outside  *)
(* the repository: a connection is open or closed, a cursor likewise, and  *)
(* a method called on a closed one raises InterfaceError.                  *)
(*   db.connection, db.cursor  the attributes of the object                *)
(*   db.txn         the transaction of the connection                      *)
(*   db.rolledBack  the rollbacks made during the last call                *)
(*   db.bodyExc     the exception the body of the last call raised, or ""  *)
(***************************************************************************)
\* line 40, and a call of _initDB that raised before psycopg2.connect
DBNew == [connection |-> "None", cursor |-> "unset", txn |-> "idle",
          rolledBack |-> 0, bodyExc |-> ""]

\* what the body of a method leaves: the exception it raised or the value
\* it returned, and the object
BodyRaised(e, d) == [exc |-> e, val |-> NoValue, db |-> d]
BodyReturned(v, d) == [exc |-> "", val |-> v, db |-> d]

\* inst.connection.rollback()
rollback(d) ==
    IF d.connection = "closed" THEN [exc |-> "InterfaceError", db |-> d]
    ELSE [exc |-> "", db |-> [d EXCEPT !.txn = "idle", !.rolledBack = @ + 1]]

\* rollBackInner, lines 47-55, around a body that has run
rollBackInner(body) ==
    IF body.exc = ""
    THEN [kind |-> "return", exc |-> "", val |-> body.val, db |-> body.db]
    ELSE IF body.db.connection = "None"
    THEN [kind |-> "return", exc |-> "", val |-> NoValue, db |-> body.db]
    ELSE LET rb == rollback(body.db)
         IN  IF rb.exc # ""
             \* raised inside the except clause: it leaves the wrapper
             THEN [kind |-> "raise", exc |-> rb.exc, val |-> NoValue,
                   db |-> rb.db]
             ELSE [kind |-> "return", exc |-> "", val |-> NoValue,
                   db |-> rb.db]

\* what the configuration file and the server make of a call of _initDB
Configs == {"missing", "unreadable", "incomplete", "refused", "ok"}

\* the body of _initDB, lines 73-106
_initDB(d, config) ==
    IF config = "missing" THEN BodyRaised("FileNotFoundError", d)
    ELSE IF config \in {"unreadable", "incomplete"}
    THEN BodyRaised("Exception", d)
    ELSE IF config = "refused" THEN BodyRaised("OperationalError", d)
    ELSE BodyReturned(NoValue, [d EXCEPT !.connection = "open",
                                         !.cursor = "open",
                                         !.txn = "idle"])

\* what the server makes of a query
Responses == {"rows", "empty", "error"}

\* self.cursor.execute(query, ...)
execute(d, response) ==
    IF d.cursor = "unset" THEN BodyRaised("AttributeError", d)
    ELSE IF d.cursor = "closed" \/ d.connection = "closed"
    THEN BodyRaised("InterfaceError", d)
    ELSE IF response = "error"
    THEN BodyRaised("DatabaseError", [d EXCEPT !.txn = "aborted"])
    ELSE BodyReturned(NoValue, [d EXCEPT !.txn = "active"])

Rows(response) == [rows |-> response]

\* the body of listSchema, lines 123-129
listSchema(d, response) ==
    LET e == execute(d, response)
    IN  IF e.exc # "" THEN e ELSE BodyReturned(Rows(response), e.db)

\* the body of listTableColumns, lines 180-197
listTableColumns(d, response) ==
    LET e == execute(d, response)
    IN  IF e.exc # "" THEN e ELSE BodyReturned(Rows(response), e.db)

\* the body of listSchemaTableNames, lines 147-153
listSchemaTableNames(d, response) ==
    LET e == execute(d, response)
    IN  IF e.exc # "" THEN e ELSE BodyReturned(Rows(response), e.db)

\* the body of getColumn, lines 220-225
getColumn(d, response) ==
    LET e == execute(d, response)
    IN  IF e.exc # "" THEN e ELSE BodyReturned(Rows(response), e.db)

\* the filters argument of a call: None, or a dict
FilterArgs == {"None", "dict"}

\* pd.DataFrame(self.cursor.fetchall(),
\*              columns=self.listTableColumns(schemaName, tableName,
\*                                            quiet=True))
\* after a query answered with `response`; the nested call is answered
\* with `inner`.  columns=None gives the frame default columns; a list of
\* no names for rows that have columns is a ValueError
DataFrame(d, response, inner) ==
    LET keys == rollBackInner(listTableColumns(d, inner))
    IN  IF keys.kind = "raise" THEN BodyRaised(keys.exc, keys.db)
        ELSE IF keys.val # NoValue /\ inner = "empty" /\ response = "rows"
        THEN BodyRaised("ValueError", keys.db)
        ELSE BodyReturned([frame |-> response,
                           columns |-> IF keys.val = NoValue THEN "default"
                                       ELSE inner],
                          keys.db)

\* the body of getTableListing, lines 245-262
getTableListing(d, filters, response, inner) ==
    \* for filt in filters
    IF filters = "None" THEN BodyRaised("TypeError", d)
    ELSE LET e == execute(d, response)
         IN  IF e.exc # "" THEN e ELSE DataFrame(e.db, response, inner)

\* the body of stationNameToID, lines 438-447; the table answers the
\* first query with `response`, the catalogue the nested one with `inner`
stationNameToID(d, response, inner) ==
    LET e == execute(d, response)
    IN  IF e.exc # "" THEN e
        \* self.cursor.fetchall()[0]
        ELSE IF response = "empty" THEN BodyRaised("IndexError", e.db)
        ELSE LET keys == rollBackInner(listTableColumns(e.db, inner))
             IN  IF keys.kind = "raise" THEN BodyRaised(keys.exc, keys.db)
                 \* zip(None, values)
                 ELSE IF keys.val = NoValue
                 THEN BodyRaised("TypeError", keys.db)
                 \* lookup['station_id']
                 ELSE IF inner = "empty" THEN BodyRaised("KeyError", keys.db)
                 ELSE BodyReturned([station_id |-> 1], keys.db)

\* the body of getStationDateRangeData, lines 292-313: the nested
\* stationNameToID is answered with `station` and `stationKeys`; a
\* station_id of None matches no row
getStationDateRangeData(d, filters, station, stationKeys, response, inner) ==
    LET id == rollBackInner(stationNameToID(d, station, stationKeys))
        answer == IF id.val = NoValue /\ response = "rows" THEN "empty"
                  ELSE response
    IN  IF id.kind = "raise" THEN BodyRaised(id.exc, id.db)
        \* for filt in filters
        ELSE IF filters = "None" THEN BodyRaised("TypeError", id.db)
        ELSE LET e == execute(id.db, answer)
             IN  IF e.exc # "" THEN e ELSE DataFrame(e.db, answer, inner)

\* the body of getL3DateRangeData, lines 354-373
getL3DateRangeData(d, filters, response, inner) ==
    \* for filt in filters
    IF filters = "None" THEN BodyRaised("TypeError", d)
    ELSE LET e == execute(d, response)
         IN  IF e.exc # "" THEN e ELSE DataFrame(e.db, response, inner)

\* the body of getL3DateRangeProducts, lines 401-415
getL3DateRangeProducts(d, filters, response, inner) ==
    LET result == rollBackInner(getL3DateRangeData(d, filters, response,
                                                   inner))
    IN  IF result.kind = "raise" THEN BodyRaised(result.exc, result.db)
        \* result.iterrows() on None
        ELSE IF result.val = NoValue
        THEN BodyRaised("AttributeError", result.db)
        \* row[1]['start_date'] on a frame with default columns
        ELSE IF result.val.frame = "rows" /\ result.val.columns = "default"
        THEN BodyRaised("KeyError", result.db)
        ELSE BodyReturned([products |-> result.val.frame], result.db)

\* the body of close, lines 459-460
close(d) ==
    IF d.cursor = "unset" THEN BodyRaised("AttributeError", d)
    ELSE BodyReturned(NoValue, [d EXCEPT !.cursor = "closed",
                                         !.connection = "closed",
                                         !.txn = "idle"])

\* a call of a wrapped method: the decorator around `body`, which was run
\* on the object with db.rolledBack put back to 0
Wrapped(op, arg, body) ==
    LET out == rollBackInner(body)
    IN  /\ pc = "idle"
        /\ db' = [out.db EXCEPT !.bodyExc = body.exc]
        /\ ret' = Outcome(op, arg, out.kind, out.exc, out.val)
        /\ UNCHANGED <<fields, projection, pc, ts>>

Fresh == [db EXCEPT !.rolledBack = 0, !.bodyExc = ""]

InitDBCall(config) ==
    Wrapped("_initDB", [config |-> config], _initDB(Fresh, config))

ListSchemaCall(response) ==
    Wrapped("listSchema", [response |-> response],
            listSchema(Fresh, response))

ListTableColumnsCall(response) ==
    Wrapped("listTableColumns", [response |-> response],
            listTableColumns(Fresh, response))

StationNameToIDCall(response, inner) ==
    Wrapped("stationNameToID", [response |-> response, inner |-> inner],
            stationNameToID(Fresh, response, inner))

ListSchemaTableNamesCall(response) ==
    Wrapped("listSchemaTableNames", [response |-> response],
            listSchemaTableNames(Fresh, response))

GetColumnCall(response) ==
    Wrapped("getColumn", [response |-> response],
            getColumn(Fresh, response))

GetTableListingCall(filters, response, inner) ==
    Wrapped("getTableListing",
            [filters |-> filters, response |-> response, inner |-> inner],
            getTableListing(Fresh, filters, response, inner))

GetStationDateRangeDataCall(filters, station, stationKeys, response, inner) ==
    Wrapped("getStationDateRangeData",
            [filters |-> filters, station |-> station,
             stationKeys |-> stationKeys, response |-> response,
             inner |-> inner],
            getStationDateRangeData(Fresh, filters, station, stationKeys,
                                    response, inner))

GetL3DateRangeDataCall(filters, response, inner) ==
    Wrapped("getL3DateRangeData",
            [filters |-> filters, response |-> response, inner |-> inner],
            getL3DateRangeData(Fresh, filters, response, inner))

GetL3DateRangeProductsCall(filters, response, inner) ==
    Wrapped("getL3DateRangeProducts",
            [filters |-> filters, response |-> response, inner |-> inner],
            getL3DateRangeProducts(Fresh, filters, response, inner))

CloseCall == Wrapped("close", NoValue, close(Fresh))

Init ==
    /\ date = <<>> /\ epoch = <<>> /\ lat = <<>> /\ lon = <<>>
    /\ x = <<>> /\ y = <<>> /\ z = <<>> /\ sigma3 = <<>>
    /\ epsg \in {None, 3031, 3413}
    /\ lltoxy = None
    /\ proj = None
    /\ meanLat = Unset
    /\ projLengthScale = NoProjLengthScale
    /\ pc = "idle"
    /\ ts = NoValue
    /\ ret = Outcome("__init__", NoValue, "return", "", NoValue)
    /\ db = DBNew

\* the files the query specification ingests
QueryFiles ==
    { File(<<LineA>>), File(<<LineB>>), File(<<LineN>>),
      File(<<LineA, LineB, LineC>>) }

\* 2020-01-01 and 2020-07-02 as strings; 2020-04-01 12:00 and
\* 2020-07-02 00:00 as datetimes
DateArgs ==
    { DateStr(2020, 1, 1), DateTime(7905600), DateStr(2020, 7, 2) }

Queries ==
    \/ \E d1 \in DateArgs, d2 \in DateArgs, m \in {SubsetMinPoints, 2} :
          SubsetXYZCall(d1, d2, m)
    \/ \E d1 \in DateArgs, d2 \in DateArgs, m \in {2, DefaultMinPoints} :
          ComputeVelocityCall(d1, d2, m)
    \/ \E d1 \in DateArgs, d2 \in DateArgs,
          m \in {0, SubsetMinPoints, DefaultMinPoints} :
          ComputeVelocityPtToPtCall(d1, d2, m, DefaultAveragingPeriod)

Series ==
    \/ \E d2 \in {DateStr(2020, 7, 2), DateStr(2021, 1, 1)},
          w \in {<<2184, 2196>>, <<4392, 4392>>},
          method \in Methods \cup {"linear"} :
          TimeSeriesCall(DateStr(2020, 1, 1), d2, w[1], w[2], method, None)
    \/ TimeSeriesStep
    \/ TimeSeriesReturn

\* ingestion alone, over every file
Next == \E file \in Files : AddData(file)

Spec == Init /\ [][Next]_vars

\* ingestion of a few files, and the queries
NextQuery ==
    \/ \E file \in QueryFiles : AddData(file)
    \/ Queries
    \/ Series

SpecQuery == Init /\ [][NextQuery]_vars

\* the calls of one nisarcryodb object
NextDB ==
    \/ \E config \in Configs : InitDBCall(config)
    \/ \E response \in Responses : ListSchemaCall(response)
    \/ \E response \in Responses : ListTableColumnsCall(response)
    \/ \E response \in Responses, inner \in Responses :
          StationNameToIDCall(response, inner)
    \/ \E response \in Responses : ListSchemaTableNamesCall(response)
    \/ \E response \in Responses : GetColumnCall(response)
    \/ \E filters \in FilterArgs, response \in Responses,
          inner \in Responses :
          GetTableListingCall(filters, response, inner)
    \/ \E filters \in FilterArgs, station \in Responses,
          stationKeys \in Responses, response \in Responses,
          inner \in Responses :
          GetStationDateRangeDataCall(filters, station, stationKeys,
                                      response, inner)
    \/ \E filters \in FilterArgs, response \in Responses,
          inner \in Responses :
          GetL3DateRangeDataCall(filters, response, inner)
    \/ \E filters \in FilterArgs, response \in Responses,
          inner \in Responses :
          GetL3DateRangeProductsCall(filters, response, inner)
    \/ CloseCall

SpecDB == Init /\ [][NextDB]_vars

\* the files the time-series specification ingests
SeriesFiles == { File(<<LineA>>), File(<<LineA, LineB, LineC>>) }

\* the window width and the sampling interval of a call, in hours
SeriesSteps == { <<2184, 0>>, <<2184, 2196>>, <<4392, 0>> }

\* ingestion of a few files, and time series whose sampling interval may
\* be zero
NextSeries ==
    \/ \E file \in SeriesFiles : AddData(file)
    \/ \E d2 \in {DateStr(2020, 7, 2), DateStr(2021, 1, 1)},
          w \in SeriesSteps, method \in Methods :
          TimeSeriesCall(DateStr(2020, 1, 1), d2, w[1], w[2], method, None)
    \/ TimeSeriesStep
    \/ TimeSeriesReturn

\* one thread runs the call: a loop that can take its next turn, or
\* return, does so
SpecSeries ==
    /\ Init /\ [][NextSeries]_vars
    /\ WF_vars(TimeSeriesStep) /\ WF_vars(TimeSeriesReturn)

(***************************************************************************)
(* Vocabulary of the properties.                                           *)
(***************************************************************************)
SameLength ==
    /\ Len(date) = Len(epoch) /\ Len(lat) = Len(epoch)
    /\ Len(lon) = Len(epoch) /\ Len(x) = Len(epoch) /\ Len(y) = Len(epoch)
    /\ Len(z) = Len(epoch) /\ Len(sigma3) = Len(epoch)

NonDecreasing(s) == \A i \in 1..(Len(s) - 1) : s[i] <= s[i + 1]

\* the sample at each index, across the eight sequences
Samples ==
    [i \in 1..Len(epoch) |->
        <<date[i], epoch[i], lat[i], lon[i], x[i], y[i], z[i], sigma3[i]>>]

\* the fields of each sample that a line of a file carries
RawSamples ==
    [i \in 1..Len(epoch) |-> <<epoch[i], lat[i], lon[i], z[i], sigma3[i]>>]

Range(s) == {s[i] : i \in 1..Len(s)}

Occurrences(s, v) == Cardinality({i \in 1..Len(s) : s[i] = v})

\* the samples addData makes of a readable file, given the transform
BatchSamples(file, code) ==
    LET r == _readFile(file)
    IN  [i \in 1..Len(r.epoch) |->
            <<DateOfEpoch(r.epoch[i]), r.epoch[i], r.lat[i], r.lon[i],
              <<"x", code, r.lat[i], r.lon[i]>>,
              <<"y", code, r.lat[i], r.lon[i]>>, r.z[i], r.sigma[i]>>]

Numeric(tokens) == \A i \in 1..Len(tokens) : tokens[i].num

\* six fields, five numbers and the station's code
ValidLine(pieces) ==
    /\ Len(pieces) = 6
    /\ Numeric(SubSeq(pieces, 1, 5))
    /\ pieces[6] = Str(stationID)

\* six fields, five numbers and another code
MismatchedLine(pieces) ==
    /\ Len(pieces) = 6
    /\ Numeric(SubSeq(pieces, 1, 5))
    /\ pieces[6] # Str(stationID)

MalformedLine(pieces) == Len(pieces) # 6

ValidCount(file) ==
    Cardinality({i \in 1..Len(file.lines) : ValidLine(file.lines[i])})

\* a step that is a call of addData on a file that exists
AddDataStep == ret'.op = "addData" /\ ret'.arg.file.exists

\* the number of samples whose timestamp lies in [d1, d2]
Within(d1, d2) ==
    Cardinality({i \in 1..Len(date) : d1 <= date[i] /\ date[i] <= d2})

(***************************************************************************)
(* C1.  After every addData call the epoch sequence is non-decreasing and  *)
(* the eight sequences have been permuted alike: they have one length, and *)
(* the samples read index by index are the samples held before the call    *)
(* together with the samples of the batch, each as often as before.        *)
(***************************************************************************)
C1_SortedAndAligned ==
    /\ [](SameLength /\ NonDecreasing(epoch))
    /\ [][ (ret'.op = "addData" /\ ret'.kind = "return") =>
             /\ SameLength'
             /\ LET batch == BatchSamples(ret'.arg.file, lltoxy')
                IN  /\ Len(Samples') = Len(Samples) + Len(batch)
                    /\ \A t \in Range(Samples') \cup Range(Samples)
                                 \cup Range(batch) :
                          Occurrences(Samples', t) =
                              Occurrences(Samples, t) + Occurrences(batch, t)
         ]_vars

\* a later sample was ingested after an earlier one was held, at another
\* latitude: the batch went in front and the sort moved it behind
C1_Witness ==
    /\ ret.op = "addData" /\ ret.kind = "return"
    /\ Len(ret.arg.file.lines) = 1
    /\ Len(epoch) >= 2
    /\ epoch[1] < ret.arg.file.lines[1][1].v
    /\ lat[1] # ret.arg.file.lines[1][2].v

(***************************************************************************)
(* C3.  addData on a file with K valid lines of the station makes the      *)
(* number of samples grow by exactly K, whatever else the file holds.      *)
(***************************************************************************)
C3_GrowsByValidCount ==
    [][ AddDataStep => Len(epoch') = Len(epoch) + ValidCount(ret'.arg.file)
      ]_vars

(***************************************************************************)
(* C4.  A six-field line with another station's code adds no sample, and   *)
(* the other lines of the file are ingested: for a file of valid and       *)
(* mismatched lines, the count grows by the number of valid lines and no   *)
(* sample of a mismatched line appears.                                    *)
(***************************************************************************)
C4_MismatchSkipped ==
    [][ LET lines == ret'.arg.file.lines
            mism == {i \in 1..Len(lines) : MismatchedLine(lines[i])}
            valid == {i \in 1..Len(lines) : ValidLine(lines[i])}
        IN  (/\ AddDataStep
             /\ mism # {}
             /\ mism \cup valid = 1..Len(lines))
            =>
            /\ Len(epoch') = Len(epoch) + Cardinality(valid)
            /\ \A i \in mism :
                 (\A j \in valid : Values(lines[j]) # Values(lines[i]))
                 => Occurrences(RawSamples', SubSeq(Values(lines[i]), 1, 5))
                    = Occurrences(RawSamples, SubSeq(Values(lines[i]), 1, 5))
      ]_vars

(***************************************************************************)
(* C5.  A line whose field count is not six is skipped and the call goes   *)
(* on: for a file of valid lines and such lines, addData returns and the   *)
(* count grows by the number of valid lines.                               *)
(***************************************************************************)
C5_MalformedSkipped ==
    [][ LET lines == ret'.arg.file.lines
            bad == {i \in 1..Len(lines) : MalformedLine(lines[i])}
            valid == {i \in 1..Len(lines) : ValidLine(lines[i])}
        IN  (/\ AddDataStep
             /\ bad # {} /\ valid # {}
             /\ bad \cup valid = 1..Len(lines))
            =>
            /\ ret'.kind = "return"
            /\ Len(epoch') = Len(epoch) + Cardinality(valid)
      ]_vars

(***************************************************************************)
(* C6.  addData on an empty file, or on a file without a valid line,       *)
(* returns and leaves the eight sequences as they were.                    *)
(***************************************************************************)
C6_NothingValidNoChange ==
    [][ (AddDataStep /\ ValidCount(ret'.arg.file) = 0)
        => (ret'.kind = "return" /\ fields' = fields)
      ]_vars

(***************************************************************************)
(* C10.  On a station without an EPSG code, addData of a readable file     *)
(* selects 3031 for a first latitude below -55 and 3413 for a first        *)
(* latitude above 55, and returns.                                         *)
(***************************************************************************)
C10_SelectsByHemisphere ==
    [][ LET r == _readFile(ret'.arg.file)
        IN  (AddDataStep /\ epsg = None /\ r.exc = "")
            =>
            /\ r.lat[1] < -55 => (epsg' = 3031 /\ ret'.kind = "return")
            /\ r.lat[1] > 55 => (epsg' = 3413 /\ ret'.kind = "return")
      ]_vars

(***************************************************************************)
(* C2.  When the window of a call holds fewer than minPoints samples,      *)
(* computeVelocity and computeVelocityPtToPt return (NaN, NaN).            *)
(***************************************************************************)
C2_FewSamplesGiveNaN ==
    LET d1 == _formatDate(ret.arg.date1)
        d2 == _formatDate(ret.arg.date2)
        nanPair == ret.kind = "return" /\ ret.val = [vx |-> NaN, vy |-> NaN]
    IN  /\ (/\ ret.op = "computeVelocity"
            /\ Within(d1, d2) < ret.arg.minPoints) => nanPair
        /\ (/\ ret.op = "computeVelocityPtToPt"
            /\ LET tAvg == ret.arg.averagingPeriod * 3600
               IN  \/ Within(d1 - tAvg, d1 + tAvg) < ret.arg.minPoints
                   \/ Within(d2 - tAvg, d2 + tAvg) < ret.arg.minPoints)
           => nanPair

(***************************************************************************)
(* C7.  subsetXYZ(date1, date2) returns exactly the samples with           *)
(* date1 <= t <= date2, in the order held, both ends included; a window    *)
(* without a sample gives the sentinel.                                    *)
(***************************************************************************)
C7_ClosedInterval ==
    (ret.op = "subsetXYZ" /\ ret.arg.minPoints = SubsetMinPoints) =>
        LET d1 == _formatDate(ret.arg.date1)
            d2 == _formatDate(ret.arg.date2)
            I == {i \in 1..Len(date) : d1 <= date[i] /\ date[i] <= d2}
            nth(j) == CHOOSE i \in I : Cardinality({k \in I : k < i}) = j - 1
        IN  IF I = {} THEN ret.val.len = 3
            ELSE /\ ret.val.len = 5
                 /\ Len(ret.val.date) = Cardinality(I)
                 /\ Len(ret.val.x) = Cardinality(I)
                 /\ Len(ret.val.y) = Cardinality(I)
                 /\ Len(ret.val.z) = Cardinality(I)
                 /\ Len(ret.val.epoch) = Cardinality(I)
                 /\ \A j \in 1..Cardinality(I) :
                      /\ ret.val.date[j] = date[nth(j)]
                      /\ ret.val.x[j] = x[nth(j)]
                      /\ ret.val.y[j] = y[nth(j)]
                      /\ ret.val.z[j] = z[nth(j)]
                      /\ ret.val.epoch[j] = epoch[nth(j)]

\* a window that starts on one sample, ends on a later one and leaves a
\* third outside
C7_Witness ==
    /\ ret.op = "subsetXYZ" /\ ret.arg.minPoints = SubsetMinPoints
    /\ ret.val.len = 5
    /\ LET d1 == _formatDate(ret.arg.date1)
           d2 == _formatDate(ret.arg.date2)
       IN  /\ d1 < d2
           /\ \E i \in 1..Len(date) : date[i] = d1 /\ d1 \in Range(ret.val.date)
           /\ \E i \in 1..Len(date) : date[i] = d2 /\ d2 \in Range(ret.val.date)
           /\ \E i \in 1..Len(date) : date[i] > d2
           /\ Len(ret.val.date) < Len(date)

(***************************************************************************)
(* C8.  computeVelocityTimeSeries with a method other than 'point' and     *)
(* 'regression' is rejected before any computation: the call ends in an    *)
(* error, no window was entered, no estimator was called and no entry of   *)
(* a series was made.                                                      *)
(***************************************************************************)
C8_UnknownMethodRejected ==
    (/\ ret.op = "computeVelocityTimeSeries"
     /\ ret.kind # "running"
     /\ ret.arg.method \notin Methods)
    =>
    /\ ret.kind = "raise"
    /\ ret.val.windows = 0
    /\ ret.val.estimates = 0
    /\ ret.val.dateSeries = <<>>

(***************************************************************************)
(* C9.  A time series over a range in which a window holds too few samples *)
(* returns: that window's entry is NaN in both velocity series and every   *)
(* window of the range has its entry.                                      *)
(***************************************************************************)
\* the windows of a call: the k with date1 + k*sampleInterval + dT < date2
WindowsOf(arg) ==
    LET d1 == _formatDate(arg.date1)
        d2 == _formatDate(arg.date2)
        step == arg.sampleInterval * 3600
        width == arg.dT * 3600
    IN  {k \in 0..((d2 - d1) \div step) : d1 + k * step + width < d2}

\* window k of the call holds fewer samples than the estimator asks for
TooFew(arg, k) ==
    LET a == _formatDate(arg.date1) + k * arg.sampleInterval * 3600
        b == a + arg.dT * 3600
        tAvg == (arg.dT \div 24) * 3600
    IN  IF arg.method = "regression"
        THEN Within(a, b) < DefaultMinPoints
        ELSE \/ Within(a - tAvg, a + tAvg) < DefaultMinPoints
             \/ Within(b - tAvg, b + tAvg) < DefaultMinPoints

C9_SeriesHoldsNaN ==
    (/\ ret.op = "computeVelocityTimeSeries"
     /\ ret.kind # "running"
     /\ ret.arg.method \in Methods
     /\ \E k \in WindowsOf(ret.arg) : TooFew(ret.arg, k))
    =>
    /\ ret.kind = "return"
    /\ Len(ret.val.vxSeries) = Cardinality(WindowsOf(ret.arg))
    /\ Len(ret.val.vySeries) = Cardinality(WindowsOf(ret.arg))
    /\ \A k \in WindowsOf(ret.arg) :
         TooFew(ret.arg, k) =>
            /\ ret.val.vxSeries[k + 1] = NaN
            /\ ret.val.vySeries[k + 1] = NaN

(***************************************************************************)
(* C11.  Once the EPSG code has a value it keeps it, and once the          *)
(* transform lltoxy exists it stays the one first derived: no operation    *)
(* changes either, whatever the latitude of a later batch.                 *)
(***************************************************************************)
C11_EPSGFixedOnceSet ==
    [][ /\ epsg # None => epsg' = epsg
        /\ lltoxy # None => lltoxy' = lltoxy
        /\ (epsg # None /\ lltoxy = None) => lltoxy' \in {None, epsg}
      ]_vars

\* a station whose code and transform came from a southern batch has
\* ingested a northern batch since
C11_Witness ==
    /\ ret.op = "addData" /\ ret.kind = "return"
    /\ _readFile(ret.arg.file).lat[1] > 55
    /\ epsg = 3031 /\ lltoxy = 3031
    /\ \E i \in 1..Len(lat) : lat[i] < -55

(***************************************************************************)
(* C12.  A time series that returns holds one entry for each window start  *)
(* date1 + k*sampleInterval whose end, start + dT, does not exceed date2   *)
(* (a window ending exactly on date2 included); the three series have      *)
(* that length, and entry k is the midpoint of window k with the           *)
(* estimate of that window.                                                *)
(***************************************************************************)
\* the k whose window ends on or before date2
WindowsEndingBy(arg) ==
    LET d1 == _formatDate(arg.date1)
        d2 == _formatDate(arg.date2)
        step == arg.sampleInterval * 3600
        width == arg.dT * 3600
    IN  {k \in 0..((d2 - d1) \div step) : d1 + k * step + width <= d2}

\* the estimate of window k of the call
EstimateOf(arg, k) ==
    LET a == _formatDate(arg.date1) + k * arg.sampleInterval * 3600
        b == a + arg.dT * 3600
    IN  IF arg.method = "regression"
        THEN computeVelocity(DateTime(a), DateTime(b), DefaultMinPoints)
        ELSE computeVelocityPtToPt(DateTime(a), DateTime(b),
                                   DefaultMinPoints,
                                   IF arg.averagingPeriod = None
                                   THEN arg.dT \div 24
                                   ELSE arg.averagingPeriod)

C12_OneEntryPerWindow ==
    (/\ ret.op = "computeVelocityTimeSeries"
     /\ ret.kind = "return"
     /\ ret.arg.method \in Methods)
    =>
    LET n == Cardinality(WindowsEndingBy(ret.arg))
    IN  /\ Len(ret.val.dateSeries) = n
        /\ Len(ret.val.vxSeries) = n
        /\ Len(ret.val.vySeries) = n
        /\ \A k \in WindowsEndingBy(ret.arg) :
              /\ ret.val.dateSeries[k + 1] =
                     _formatDate(ret.arg.date1)
                     + k * ret.arg.sampleInterval * 3600
                     + ret.arg.dT * 1800
              /\ ret.val.vxSeries[k + 1] = EstimateOf(ret.arg, k).vx
              /\ ret.val.vySeries[k + 1] = EstimateOf(ret.arg, k).vy

(***************************************************************************)
(* C13.  Every call of computeVelocityTimeSeries ends, whatever date1,     *)
(* date2, dT and sampleInterval (zero included): a turn of the loop that   *)
(* does not end the call moves the window start on toward date2.  A turn   *)
(* that leaves the start where it was is followed by the same test on the  *)
(* same samples, without end.                                              *)
(***************************************************************************)
C13_LoopAdvances ==
    [][ (pc = "loop" /\ pc' = "loop") => ts'.currentDate > ts.currentDate
      ]_vars

(***************************************************************************)
(* C14.  addData reads its whole file before it touches a sample array:    *)
(* a call whose reading or parsing fails (a missing file, a line that      *)
(* does not parse) raises, and a call that raises leaves the eight arrays  *)
(* as they were.                                                           *)
(***************************************************************************)
C14_FailedReadChangesNothing ==
    [][ ret'.op = "addData" =>
        /\ _readFile(ret'.arg.file).exc # "" => ret'.kind = "raise"
        /\ ret'.kind = "raise" => fields' = fields
      ]_vars

\* a call on a station holding samples failed at a line of its file, after
\* a line before it had been read
C14_Witness ==
    /\ ret.op = "addData" /\ ret.kind = "raise"
    /\ Len(date) > 0
    /\ ret.arg.file.exists
    /\ LET r == ReadLines(ret.arg.file.lines,
                          [exc |-> "", newData |-> <<>>, date |-> <<>>,
                           printed |-> 0])
       IN  r.exc # "" /\ r.date # <<>>

(***************************************************************************)
(* C15.  The minPoints argument of computeVelocity is the threshold of its *)
(* window: a call whose window [date1, date2] holds at least one sample    *)
(* but fewer than minPoints returns (NaN, NaN), for the default of 10 and  *)
(* for any other value.                                                    *)
(***************************************************************************)
C15_MinPointsIsThreshold ==
    LET n == Within(_formatDate(ret.arg.date1), _formatDate(ret.arg.date2))
    IN  (ret.op = "computeVelocity" /\ 1 <= n /\ n < ret.arg.minPoints)
        => /\ ret.kind = "return"
           /\ ret.val = [vx |-> NaN, vy |-> NaN]

(***************************************************************************)
(* C16.  After an addData that returns, meanLat is the mean latitude of    *)
(* the batch just read, not of the whole array, and projLengthScale is     *)
(* the parallel scale of the projection at that mean.                      *)
(***************************************************************************)
C16_MeanLatOfLastBatch ==
    (ret.op = "addData" /\ ret.kind = "return") =>
        LET batchLat == _readFile(ret.arg.file).lat
        IN  /\ meanLat.den > 0
            /\ meanLat.num * Len(batchLat) = Sum(batchLat) * meanLat.den
            /\ projLengthScale = [proj |-> epsg, lat |-> meanLat]

\* the batch just read has another mean latitude than the array holds
C16_Witness ==
    /\ ret.op = "addData" /\ ret.kind = "return"
    /\ LET batchLat == _readFile(ret.arg.file).lat
       IN  /\ Len(lat) > Len(batchLat)
           /\ Sum(lat) * Len(batchLat) # Sum(batchLat) * Len(lat)

(***************************************************************************)
(* C18.  addData never removes or alters a sample the station holds: in    *)
(* every call, returning or not, each sample held before is held after     *)
(* at least as many times, with the same eight values.                     *)
(***************************************************************************)
C18_SamplesOnlyGrow ==
    [][ ret'.op = "addData" =>
          \A t \in Range(Samples) :
              Occurrences(Samples', t) >= Occurrences(Samples, t)
      ]_vars

\* a batch went in whose sample is earlier than one held before it
C18_Witness ==
    /\ ret.op = "addData" /\ ret.kind = "return"
    /\ LET batchEpoch == _readFile(ret.arg.file).epoch
       IN  /\ Len(epoch) > Len(batchEpoch)
           /\ batchEpoch[1] < epoch[Len(epoch)]
           /\ Occurrences(epoch, epoch[Len(epoch)])
                 > Occurrences(batchEpoch, epoch[Len(epoch)])

(***************************************************************************)
(* C17.  A call of a method wrapped by rollBackOnError whose body raises   *)
(* returns None: with a connection held the connection was rolled back,    *)
(* with none held no rollback was made.  This holds in any sequence of     *)
(* calls, nested wrapped calls and calls after close() included.           *)
(***************************************************************************)
DBMethods ==
    {"_initDB", "listSchema", "listSchemaTableNames", "listTableColumns",
     "getColumn", "getTableListing", "getStationDateRangeData",
     "getL3DateRangeData", "getL3DateRangeProducts", "stationNameToID",
     "close"}

C17_RollBackAndReturnNone ==
    (ret.op \in DBMethods /\ db.bodyExc # "") =>
        /\ ret.kind = "return"
        /\ ret.val = NoValue
        /\ IF db.connection = "None" THEN db.rolledBack = 0
           ELSE db.rolledBack >= 1

====
